---- MODULE Spec2Model ----
(***************************************************************************)
(* Reference Value Provider Service: the extractor registry and            *)
(* handle_provenance (lib/src/lib.rs), the in-toto extractor, the          *)
(* ReferenceValue record and its JSON form (lib/src/reference_value.rs),   *)
(* and the Broadcaster with its Cache (app/broadcaster).                   *)
(***************************************************************************)
EXTENDS Integers, Sequences, FiniteSets, TLC

VARIABLES
    extractors_instance_map, \* Extrators.extractors_instance_map: type -> instance
    factory_calls,           \* per type, how often its instantiate_func was called
    instances_used,          \* per type, the instances handle_provenance resolved
    cwd,                     \* the process's current working directory
    hp,                      \* the last handle_provenance call: inputs and outcome
    th,                      \* per thread, its handle_provenance call in progress / last
    cache,                   \* Cache.inner: artifact name -> ReferenceValue
    cache_op,                \* the last direct CacheAPI call and its arguments
    snapshot,                \* the Vec the last get_all returned
    published,               \* messages delivered on the channel, in order
    sp_pc,                   \* position inside store_and_publish
    sp_rv,                   \* the rv argument of the store_and_publish in progress / last
    sp_message,              \* the local message of store_and_publish
    sp_result,               \* what the last store_and_publish returned
    sp_retry,                \* the store_and_publish in progress / last repeats the
                             \* argument of the call before it, whose publish failed
    rv,                      \* a ReferenceValue under construction (builder methods)
    wire,                    \* serde_json form of rv, once serialized
    back                     \* what deserializing wire gave

vars == <<extractors_instance_map, factory_calls, instances_used, cwd, hp, th,
          cache, cache_op, snapshot, published, sp_pc, sp_rv, sp_message, sp_result,
          sp_retry, rv, wire, back>>

extractVars == <<extractors_instance_map, factory_calls, instances_used, cwd, hp, th>>
cacheVars == <<cache, cache_op, snapshot>>
broadcastVars == <<published, sp_pc, sp_rv, sp_message, sp_result, sp_retry>>
rvVars == <<rv, wire, back>>

-----------------------------------------------------------------------------
(* Generic helpers *)

None == "none"

\* A finite map restricted to the keys in K.
Restrict(f, K) == [k \in (DOMAIN f) \cap K |-> f[k]]

\* HashMap::insert: add or overwrite one key.
MapInsert(f, k, v) == [x \in (DOMAIN f) \cup {k} |-> IF x = k THEN v ELSE f[x]]

EmptyMap == [x \in {} |-> None]

Ok(v) == [ok |-> TRUE, value |-> v]
Err(msg, arg) == [ok |-> FALSE, msg |-> msg, arg |-> arg]

-----------------------------------------------------------------------------
(* lib/src/lib.rs and lib/src/extractors *)

WORKING_DIR_KEY == "working_dir"

\* Provenance types a caller may name; "foo" has no factory.
ProvTypes == {"in-toto", "other", "foo"}

\* ExtractorModuleList.mod_list: the types with a registered factory. "in-toto"
\* is the compiled-in one; "other" stands for an Extractor implementation added
\* at the extension point, whose verify_and_extract may succeed.
mod_list == {"in-toto", "other"}

ArtifactNames == {"foo.tar.gz", "kata-agent"}
Digests == {"abc123", "def456"}

\* Directories are paths from the root, as sequences of components.
ExistingDirs == {<<>>, <<"w">>, <<"w", "w">>}

\* Values a caller may give for parameters["working_dir"]: an absolute path, a
\* relative path, and a path to a directory that does not exist.
WorkingDirParams == {"/w", "w", "/missing"}

\* Path resolution of env::set_current_dir: an absolute path stands for itself,
\* the relative path "w" is resolved against the current directory.
Resolve(cur, p) ==
    IF p = "w" THEN Append(cur, "w")
    ELSE IF p = "/w" THEN <<"w">>
    ELSE <<"missing">>

\* Stands for "no directory" where a directory is recorded.
NoDir == <<"none">>

\* env::set_current_dir(p) succeeds iff the resolved directory exists.
CanEnterAnything(cur, p) == TRUE
CanEnter(cur, p) == Resolve(cur, p) \in ExistingDirs

\* The parameter map of the in_toto test, with working_dir = wd.
FullParams(wd) ==
    [working_dir |-> wd,
     layout_path |-> "demo.layout",
     pub_key_paths |-> "[\"./alice.pub\"]",
     intermediate_paths |-> "[]",
     link_dir |-> ".",
     line_normalization |-> "true"]

InTotoKeys == {"layout_path", "pub_key_paths", "intermediate_paths", "link_dir",
               "line_normalization"}

\* The parameter maps callers pass: complete ones, ones lacking a single key
\* (working_dir among them), ones with a value that does not parse, and the
\* empty map.
ParamMaps ==
    {FullParams(wd) : wd \in WorkingDirParams}
    \cup {Restrict(FullParams("w"), (InTotoKeys \cup {WORKING_DIR_KEY}) \ {k}) :
            k \in InTotoKeys \cup {WORKING_DIR_KEY}}
    \cup {[FullParams("w") EXCEPT !.pub_key_paths = "not json"],
          [FullParams("w") EXCEPT !.intermediate_paths = "not json"],
          [FullParams("w") EXCEPT !.line_normalization = "yes"]}
    \cup {EmptyMap}

\* serde_json::from_str into a list of paths accepts these texts.
JsonPathLists == {"[]", "[\"./alice.pub\"]"}

\* <bool as FromStr>::from_str accepts exactly these.
BoolTexts == {"true", "false"}

\* An extractor instance: the serial-th object the factory of type built.
Instance(type, serial) == [type |-> type, serial |-> serial]
NoInstance == Instance(None, 0)

\* lib.rs ReferenceValue { provenance_name, hash_value }.
LibReferenceValue(provenance_name, hash_value) ==
    [provenance_name |-> provenance_name, hash_value |-> hash_value]

\* ExtractorModuleList::get_func
GetFuncAlwaysFound(extractor_name) == Ok(extractor_name)
GetFunc(extractor_name) ==
    IF extractor_name \in mod_list
    THEN Ok(extractor_name)
    ELSE Err("RVPS Extractors does not support the given extractor: {}!", extractor_name)

\* What InTotoExtractor::verify_and_extract returns once verify() has succeeded.
InTotoReturnsVerifyOutput == Ok("")
InTotoAfterVerify == Err("Can not extract hash value using in-toto", None)

\* InTotoExtractor::verify_and_extract. verified is the verdict of
\* in_totolib's verify() on the files found in the current directory.
InTotoVerifyAndExtract(parameters, verified) ==
    IF "layout_path" \notin DOMAIN parameters
    THEN Err("parameters do not have layout path!", None)
    ELSE IF "pub_key_paths" \notin DOMAIN parameters
    THEN Err("parameters do not have pub key paths!", None)
    ELSE IF parameters["pub_key_paths"] \notin JsonPathLists
    THEN Err("serde_json", "pub_key_paths")
    ELSE IF "intermediate_paths" \notin DOMAIN parameters
    THEN Err("parameters do not have intermediate paths!", None)
    ELSE IF parameters["intermediate_paths"] \notin JsonPathLists
    THEN Err("serde_json", "intermediate_paths")
    ELSE IF "link_dir" \notin DOMAIN parameters
    THEN Err("parameters do not have link files dir path!", None)
    ELSE IF "line_normalization" \notin DOMAIN parameters
    THEN Err("parameters do not have line normalization!", None)
    ELSE IF parameters["line_normalization"] \notin BoolTexts
    THEN Err("provided string was not true or false", None)
    ELSE IF ~verified
    THEN Err("in-toto verification failed", None)
    ELSE InTotoAfterVerify

\* What an extractor may find of the provenance it is given: it rejects it, or
\* it accepts it; an extractor that extracts then yields one of the Digests.
Rejected == "rejected"
Verified == "verified"
Verdicts(provenance_type) ==
    IF provenance_type = "in-toto" THEN {Rejected, Verified} ELSE {Rejected} \cup Digests

\* Extractor::verify_and_extract of the instance registered for provenance_type:
\* the in-toto extractor, or an implementation that returns the digest it
\* extracts when it accepts the provenance.
VerifyAndExtract(provenance_type, parameters, verdict) ==
    IF provenance_type = "in-toto"
    THEN InTotoVerifyAndExtract(parameters, verdict # Rejected)
    ELSE IF verdict # Rejected THEN Ok(verdict)
    ELSE Err("verification failed", None)

\* handle_provenance's test extractors_instance_map.get_mut(..).is_none().
AlwaysInstantiate(map, provenance_type) == TRUE
NeedsInstantiate(map, provenance_type) == provenance_type \notin DOMAIN map

\* parameters.get(WORKING_DIR_KEY).ok_or(..)
GetWorkingDirOrDefault(parameters) ==
    IF WORKING_DIR_KEY \in DOMAIN parameters
    THEN Ok(parameters[WORKING_DIR_KEY])
    ELSE Ok("w")
GetWorkingDir(parameters) ==
    IF WORKING_DIR_KEY \in DOMAIN parameters
    THEN Ok(parameters[WORKING_DIR_KEY])
    ELSE Err("parameters do not indicate {}!", WORKING_DIR_KEY)

\* The ? after verify_and_extract(..): the extractor's error becomes the
\* error of handle_provenance as it is.
WrapExtractorError(e) == Err("handle_provenance failed", e.msg)
PropagateExtractorError(e) == e

\* The outcome of one handle_provenance call on a registry whose instance map
\* is map, in a process whose working directory is cur. curDirOk and
\* restoreOk are the results of env::current_dir() and of the closing
\* env::set_current_dir(cwd); verdict is what the extractor finds.
\* The record gives the instance map and working directory afterwards, whether
\* the factory was called, the instance resolved, whether and where
\* verify_and_extract ran, and the value returned.
HandleOutcome(map, serial, cur, provenance_type, provenance_name, parameters, curDirOk, restoreOk, verdict) ==
    LET needs == NeedsInstantiate(map, provenance_type)
        func == GetFunc(provenance_type)
        stop(m, created, inst, c, ran, dir, res) ==
            [map |-> m, created |-> created, instance |-> inst, cwd |-> c,
             ran |-> ran, run_dir |-> dir, result |-> res]
    IN
    IF needs /\ ~func.ok
    THEN stop(map, FALSE, NoInstance, cur, FALSE, NoDir, func)
    ELSE
      LET map1 == IF needs
                  THEN MapInsert(map, provenance_type, Instance(provenance_type, serial))
                  ELSE map
          inst == map1[provenance_type]
          wd == GetWorkingDir(parameters)
      IN
      IF ~curDirOk
      THEN stop(map1, needs, inst, cur, FALSE, NoDir, Err("io: current_dir", None))
      ELSE IF ~wd.ok
      THEN stop(map1, needs, inst, cur, FALSE, NoDir, wd)
      ELSE IF ~CanEnter(cur, wd.value)
      THEN stop(map1, needs, inst, cur, FALSE, NoDir,
                 Err("io: set_current_dir", wd.value))
      ELSE
        LET dir == Resolve(cur, wd.value)
            hash_value == VerifyAndExtract(inst.type, parameters, verdict)
        IN
        IF ~hash_value.ok
        THEN stop(map1, needs, inst, dir, TRUE, dir, PropagateExtractorError(hash_value))
        ELSE IF ~restoreOk
        THEN stop(map1, needs, inst, dir, TRUE, dir, Err("io: set_current_dir", "cwd"))
        ELSE stop(map1, needs, inst, cur, TRUE, dir,
                  Ok(LibReferenceValue(provenance_name, hash_value.value)))

NoCall ==
    [provenance_type |-> None, provenance_name |-> None, parameters |-> EmptyMap,
     cur_dir_ok |-> TRUE, verdict |-> Rejected, cwd_before |-> <<>>,
     map_before |-> EmptyMap, created |-> FALSE,
     instance |-> NoInstance, ran |-> FALSE, run_dir |-> NoDir,
     result |-> Err(None, None)]

\* Extrators::handle_provenance
HandleProvenance(provenance_type, provenance_name, parameters, curDirOk, restoreOk, verdict) ==
    LET out == HandleOutcome(extractors_instance_map, factory_calls[provenance_type] + 1,
                             cwd, provenance_type, provenance_name, parameters,
                             curDirOk, restoreOk, verdict)
    IN
    /\ extractors_instance_map' = out.map
    /\ factory_calls' = [factory_calls EXCEPT ![provenance_type] =
                            IF out.created THEN @ + 1 ELSE @]
    /\ instances_used' = [instances_used EXCEPT ![provenance_type] =
                            IF out.instance = NoInstance THEN @ ELSE @ \cup {out.instance}]
    /\ cwd' = out.cwd
    /\ hp' = [provenance_type |-> provenance_type, provenance_name |-> provenance_name,
              parameters |-> parameters, cur_dir_ok |-> curDirOk, verdict |-> verdict,
              cwd_before |-> cwd, map_before |-> extractors_instance_map,
              created |-> out.created, instance |-> out.instance, ran |-> out.ran,
              run_dir |-> out.run_dir, result |-> out.result]
    /\ UNCHANGED <<th, cacheVars, broadcastVars, rvVars>>

\* Threads of one process, each calling handle_provenance on an Extrators of
\* its own, as the in_toto test does with Extrators::new().
Threads == {1, 2}

\* The parameter maps the threads pass: the complete ones and one lacking
\* working_dir.
ThreadParams ==
    {FullParams(wd) : wd \in WorkingDirParams} \cup {Restrict(FullParams("w"), InTotoKeys)}

NoThreadCall ==
    [pc |-> "idle", provenance_type |-> None, provenance_name |-> None,
     parameters |-> EmptyMap, cwd |-> <<>>, own_dir |-> NoDir, run_dir |-> NoDir,
     hash_value |-> Err(None, None), result |-> Err(None, None)]

\* Thread t returns res from handle_provenance.
Return(t, res) == th' = [th EXCEPT ![t].pc = "idle", ![t].result = res]

\* Thread t runs handle_provenance from its start through
\* env::set_current_dir(working_dir) on a new registry: it resolves the
\* instance, keeps the process's working directory in its local cwd, and
\* enters working_dir.
EnterWorkingDir(t, provenance_type, provenance_name, parameters) ==
    LET func == GetFunc(provenance_type)
        wd == GetWorkingDir(parameters)
        call == [NoThreadCall EXCEPT !.provenance_type = provenance_type,
                                     !.provenance_name = provenance_name,
                                     !.parameters = parameters]
    IN
    /\ th[t].pc = "idle"
    /\ IF ~func.ok
       THEN th' = [th EXCEPT ![t] = [call EXCEPT !.result = func]] /\ UNCHANGED cwd
       ELSE IF ~wd.ok
       THEN th' = [th EXCEPT ![t] = [call EXCEPT !.result = wd]] /\ UNCHANGED cwd
       ELSE IF ~CanEnter(cwd, wd.value)
       THEN /\ th' = [th EXCEPT ![t] =
                        [call EXCEPT !.result = Err("io: set_current_dir", wd.value)]]
            /\ UNCHANGED cwd
       ELSE /\ cwd' = Resolve(cwd, wd.value)
            /\ th' = [th EXCEPT ![t] = [call EXCEPT !.pc = "extract", !.cwd = cwd,
                                                    !.own_dir = Resolve(cwd, wd.value)]]
    /\ UNCHANGED <<extractors_instance_map, factory_calls, instances_used, hp>>
    /\ UNCHANGED <<cacheVars, broadcastVars, rvVars>>

\* Thread t runs instance.verify_and_extract(provenance, parameters)?: the
\* extractor works in whatever directory the process is in at that moment.
Extract(t, verdict) ==
    LET hash_value == VerifyAndExtract(th[t].provenance_type, th[t].parameters, verdict) IN
    /\ th[t].pc = "extract"
    /\ verdict \in Verdicts(th[t].provenance_type)
    /\ th' = [th EXCEPT ![t].run_dir = cwd,
                        ![t].hash_value = hash_value,
                        ![t].pc = IF hash_value.ok THEN "restore" ELSE "idle",
                        ![t].result = IF hash_value.ok THEN @
                                      ELSE PropagateExtractorError(hash_value)]
    /\ UNCHANGED <<extractors_instance_map, factory_calls, instances_used, cwd, hp>>
    /\ UNCHANGED <<cacheVars, broadcastVars, rvVars>>

\* Thread t runs env::set_current_dir(cwd)? with its local cwd and returns the
\* ReferenceValue.
RestoreCwd(t) ==
    /\ th[t].pc = "restore"
    /\ cwd' = th[t].cwd
    /\ Return(t, Ok(LibReferenceValue(th[t].provenance_name, th[t].hash_value.value)))
    /\ UNCHANGED <<extractors_instance_map, factory_calls, instances_used, hp>>
    /\ UNCHANGED <<cacheVars, broadcastVars, rvVars>>

-----------------------------------------------------------------------------
(* lib/src/reference_value.rs *)

REFERENCE_VALUE_VERSION == "0.1"

\* A DateTime<Utc>: calendar fields and the nanosecond part (a leap second has
\* nano >= 10^9, as in chrono).
DateTime(y, mo, d, h, mi, s, n) ==
    [year |-> y, month |-> mo, day |-> d, hour |-> h, minute |-> mi,
     second |-> s, nano |-> n]

\* Utc.ymd(1970, 1, 1).and_hms(0, 0, 0), the time of the tests.
Epoch == DateTime(1970, 1, 1, 0, 0, 0, 0)

\* Times a caller may pass to set_expired: whole seconds.
ExpiredTimes == {Epoch, DateTime(2022, 8, 1, 12, 34, 56, 0),
                 DateTime(2024, 2, 29, 23, 59, 59, 0)}

\* Values Utc::now() may return: the clock has nanosecond resolution.
NowTimes == {DateTime(2022, 8, 1, 12, 34, 56, 0),
             DateTime(2022, 8, 1, 12, 34, 56, 500000000),
             DateTime(2022, 8, 1, 12, 34, 56, 123456000),
             DateTime(2022, 8, 1, 12, 34, 56, 123456789)}

Versions == {REFERENCE_VALUE_VERSION, "1.0"}
RVNames == {"", "artifact", "kata-agent"}

\* HashValuePair::new
HashValuePair(alg, value) == [alg |-> alg, value |-> value]
HashPairs == {HashValuePair("sha512", "123"), HashValuePair("sha256", "abc")}

\* Longest hash_value list built.
MaxHashes == 2

\* ReferenceValue::new, now being what Utc::now() returns.
NewReferenceValue(now) ==
    [version |-> REFERENCE_VALUE_VERSION, name |-> "", expired |-> now,
     hash_value |-> <<>>]

\* Texts are sequences of characters.
DigitChars == <<"0", "1", "2", "3", "4", "5", "6", "7", "8", "9">>
IsDigit(c) == \E i \in 1..10 : DigitChars[i] = c
DigitVal(c) == (CHOOSE i \in 1..10 : DigitChars[i] = c) - 1

\* format!("{:0w$}", n)
RECURSIVE Pad(_, _)
Pad(n, w) == IF w = 0 THEN <<>> ELSE Append(Pad(n \div 10, w - 1), DigitChars[(n % 10) + 1])

\* chrono's Debug for NaiveTime prints the fraction with 0, 3, 6 or 9 digits.
FormatFraction(nano) ==
    IF nano = 0 THEN <<>>
    ELSE IF nano % 1000000 = 0 THEN <<".">> \o Pad(nano \div 1000000, 3)
    ELSE IF nano % 1000 = 0 THEN <<".">> \o Pad(nano \div 1000, 6)
    ELSE <<".">> \o Pad(nano, 9)

\* How the derived Serialize writes expired: chrono's Serialize for
\* DateTime<Utc>, the Debug form (date, 'T', time with fraction, 'Z').
FormatDateTime(t) ==
    Pad(t.year, 4) \o <<"-">> \o Pad(t.month, 2) \o <<"-">> \o Pad(t.day, 2)
    \o <<"T">> \o Pad(t.hour, 2) \o <<":">> \o Pad(t.minute, 2) \o <<":">>
    \o Pad(t.second + (t.nano \div 1000000000), 2)
    \o FormatFraction(t.nano % 1000000000) \o <<"Z">>

\* chrono's scan::number: between 1 and max digits at position pos, greedy.
RECURSIVE DigitsAt(_, _, _)
DigitsAt(s, pos, max) ==
    IF max = 0 \/ pos > Len(s) \/ ~IsDigit(s[pos]) THEN 0
    ELSE 1 + DigitsAt(s, pos + 1, max - 1)

RECURSIVE NumberOf(_, _, _)
NumberOf(s, pos, n) ==
    IF n = 0 THEN 0 ELSE NumberOf(s, pos, n - 1) * 10 + DigitVal(s[pos + n - 1])

\* The items of the format "%Y-%m-%dT%H:%M:%SZ": a field with its width, or a
\* literal character.
FormatItems ==
    << [field |-> "year", width |-> 4], [lit |-> "-"],
       [field |-> "month", width |-> 2], [lit |-> "-"],
       [field |-> "day", width |-> 2], [lit |-> "T"],
       [field |-> "hour", width |-> 2], [lit |-> ":"],
       [field |-> "minute", width |-> 2], [lit |-> ":"],
       [field |-> "second", width |-> 2], [lit |-> "Z"] >>

\* chrono's parse trims the white space in front of a numeric field.
RECURSIVE SkipSpace(_, _)
SkipSpace(s, pos) ==
    IF pos <= Len(s) /\ s[pos] = " " THEN SkipSpace(s, pos + 1) ELSE pos

\* chrono's parse over the items from index i, reading s from pos; acc maps the
\* fields read so far. A numeric field is read after any white space, as 1 to
\* width digits whatever the padding; the year may instead carry a sign, and
\* then takes every digit that follows. Input left over after the last item is
\* an error.
RECURSIVE ParseItems(_, _, _, _)
ParseItems(s, pos, i, acc) ==
    IF i > Len(FormatItems)
    THEN IF pos = Len(s) + 1 THEN Ok(acc) ELSE Err("trailing input", None)
    ELSE
      LET item == FormatItems[i] IN
      IF "lit" \in DOMAIN item
      THEN IF pos <= Len(s) /\ s[pos] = item.lit
           THEN ParseItems(s, pos + 1, i + 1, acc)
           ELSE IF pos > Len(s) THEN Err("premature end of input", None)
           ELSE Err("input contains invalid characters", None)
      ELSE
        LET at == SkipSpace(s, pos)
            signed == item.field = "year" /\ at <= Len(s) /\ s[at] \in {"+", "-"}
            from == IF signed THEN at + 1 ELSE at
            n == DigitsAt(s, from, IF signed THEN Len(s) ELSE item.width)
        IN
        IF n = 0
        THEN IF from > Len(s) THEN Err("premature end of input", None)
             ELSE Err("input contains invalid characters", None)
        ELSE ParseItems(s, from + n, i + 1,
                        MapInsert(acc, item.field,
                                  IF signed /\ s[at] = "-" THEN 0 - NumberOf(s, from, n)
                                  ELSE NumberOf(s, from, n)))

\* chrono's NaiveDate covers these years.
MIN_YEAR == 0 - 262144
MAX_YEAR == 262143

IsLeapYear(y) == (y % 4 = 0 /\ y % 100 # 0) \/ y % 400 = 0
DaysInMonth(y, m) ==
    IF m = 2 THEN (IF IsLeapYear(y) THEN 29 ELSE 28)
    ELSE IF m \in {4, 6, 9, 11} THEN 30 ELSE 31

\* NaiveDateTime::parse_from_str(&s, "%Y-%m-%dT%H:%M:%SZ") followed by
\* DateTime::<Utc>::from_utc: the fields must form a valid date and time; second
\* 60 is read as a leap second.
ParseDateTime(s) ==
    LET p == ParseItems(s, 1, 1, EmptyMap) IN
    IF ~p.ok THEN p
    ELSE
      LET f == p.value IN
      IF \/ f["year"] \notin MIN_YEAR..MAX_YEAR
         \/ f["month"] \notin 1..12
         \/ f["day"] \notin 1..DaysInMonth(f["year"], f["month"])
         \/ f["hour"] > 23 \/ f["minute"] > 59 \/ f["second"] > 60
      THEN Err("input is out of range", None)
      ELSE Ok(DateTime(f["year"], f["month"], f["day"], f["hour"], f["minute"],
                       IF f["second"] = 60 THEN 59 ELSE f["second"],
                       IF f["second"] = 60 THEN 1000000000 ELSE 0))

\* JSON values.
JStr(s) == [t |-> "string", v |-> s]
JNull == [t |-> "null", v |-> <<>>]
JArr(a) == [t |-> "array", v |-> a]

\* The derived Serialize of ReferenceValue (serde_json::to_string / to_value):
\* an object with the four fields, hash_value renamed "hash-value".
Serialize(r) ==
    ("version" :> JStr(r.version)) @@ ("name" :> JStr(r.name))
    @@ ("expired" :> JStr(FormatDateTime(r.expired)))
    @@ ("hash-value" :> JArr(r.hash_value))

\* primitive_date_time_from_str, on the JSON value of "expired".
PrimitiveDateTimeFromStr(j) ==
    IF j.t = "null" THEN Err("invalid length 0, expected <TIME>", None)
    ELSE IF j.t # "string" THEN Err("invalid type", "expired")
    ELSE ParseDateTime(j.v)

\* The derived Deserialize of ReferenceValue, on a JSON object: version falls
\* back to default_version(), expired goes through primitive_date_time_from_str,
\* the other fields are required; unknown fields are ignored.
Deserialize(obj) ==
    LET expired == IF "expired" \in DOMAIN obj
                   THEN PrimitiveDateTimeFromStr(obj["expired"])
                   ELSE Err("missing field", "expired")
    IN
    IF "version" \in DOMAIN obj /\ obj["version"].t # "string"
    THEN Err("invalid type", "version")
    ELSE IF "name" \in DOMAIN obj /\ obj["name"].t # "string"
    THEN Err("invalid type", "name")
    ELSE IF "expired" \in DOMAIN obj /\ ~expired.ok
    THEN expired
    ELSE IF "hash-value" \in DOMAIN obj /\ obj["hash-value"].t # "array"
    THEN Err("invalid type", "hash-value")
    ELSE IF "name" \notin DOMAIN obj
    THEN Err("missing field", "name")
    ELSE IF "expired" \notin DOMAIN obj
    THEN expired
    ELSE IF "hash-value" \notin DOMAIN obj
    THEN Err("missing field", "hash-value")
    ELSE Ok([version |-> IF "version" \in DOMAIN obj THEN obj["version"].v
                         ELSE REFERENCE_VALUE_VERSION,
             name |-> obj["name"].v,
             expired |-> expired.value,
             hash_value |-> obj["hash-value"].v])

NoWire == EmptyMap
NoBack == Err(None, None)

\* ReferenceValue::new
New(now) ==
    /\ rv' = NewReferenceValue(now)
    /\ wire' = NoWire /\ back' = NoBack
    /\ UNCHANGED <<extractVars, cacheVars, broadcastVars>>

\* ReferenceValue::set_version
SetVersion(version) ==
    /\ rv' = [rv EXCEPT !.version = version]
    /\ wire' = NoWire /\ back' = NoBack
    /\ UNCHANGED <<extractVars, cacheVars, broadcastVars>>

\* ReferenceValue::set_name
SetName(name) ==
    /\ rv' = [rv EXCEPT !.name = name]
    /\ wire' = NoWire /\ back' = NoBack
    /\ UNCHANGED <<extractVars, cacheVars, broadcastVars>>

\* ReferenceValue::set_expired
SetExpired(expired) ==
    /\ rv' = [rv EXCEPT !.expired = expired]
    /\ wire' = NoWire /\ back' = NoBack
    /\ UNCHANGED <<extractVars, cacheVars, broadcastVars>>

\* ReferenceValue::add_hash_value
AddHashValue(alg, value) ==
    /\ Len(rv.hash_value) < MaxHashes
    /\ rv' = [rv EXCEPT !.hash_value = Append(@, HashValuePair(alg, value))]
    /\ wire' = NoWire /\ back' = NoBack
    /\ UNCHANGED <<extractVars, cacheVars, broadcastVars>>

\* serde_json::to_value(&rv)
SerializeRV ==
    /\ wire' = Serialize(rv)
    /\ back' = NoBack
    /\ UNCHANGED <<rv, extractVars, cacheVars, broadcastVars>>

\* serde_json::from_str::<ReferenceValue>
DeserializeRV ==
    /\ wire # NoWire
    /\ back' = Deserialize(wire)
    /\ UNCHANGED <<rv, wire, extractVars, cacheVars, broadcastVars>>

\* Texts a sender may put in "expired": the text of the deserialize test, and
\* texts that depart from it in one respect.
TestExpiredText == FormatDateTime(Epoch)
ExpiredTexts ==
    { TestExpiredText,
      FormatDateTime(DateTime(1970, 1, 1, 0, 0, 0, 500000000)),
      SubSeq(TestExpiredText, 1, 19),
      [TestExpiredText EXCEPT ![11] = " "],
      [TestExpiredText EXCEPT ![6] = "1", ![7] = "3"],
      <<"1", "9", "7", "0", "-", "1", "-", "1", "T", "0", ":", "0", ":", "0", "Z">>,
      <<" ">> \o TestExpiredText,
      <<"+">> \o TestExpiredText,
      <<>> }

\* A JSON number, kept as its digits.
JNum(digits) == [t |-> "number", v |-> digits]

\* The JSON values a sender may give "expired".
ExpiredJson == {JStr(text) : text \in ExpiredTexts} \cup {JNull, JNum(<<"0">>)}

\* The JSON objects handed to serde_json::from_str: every field may be absent.
WireObjects ==
    { o \in
        { version @@ name @@ expired @@ hashes :
            version \in {EmptyMap, "version" :> JStr("1.0")},
            name \in {EmptyMap, "name" :> JStr("artifact")},
            expired \in {EmptyMap} \cup {"expired" :> j : j \in ExpiredJson},
            hashes \in {EmptyMap, "hash-value" :> JArr(<<HashValuePair("sha512", "123")>>)} } :
        o # NoWire }

\* A JSON object arrives from outside.
Receive(obj) ==
    /\ wire' = obj
    /\ back' = NoBack
    /\ UNCHANGED <<rv, extractVars, cacheVars, broadcastVars>>

-----------------------------------------------------------------------------
(* app/broadcaster/cache.rs *)

NoRV == [version |-> None, name |-> None, expired |-> Epoch, hash_value |-> <<>>]

\* The reference values handed to the Cache and the Broadcaster.
StoredNames == {"artifact", "kata-agent"}
StoredRVs ==
    {[version |-> REFERENCE_VALUE_VERSION, name |-> n, expired |-> t,
      hash_value |-> <<HashValuePair("sha512", "123")>>] :
        n \in StoredNames, t \in {Epoch, DateTime(2022, 8, 1, 12, 34, 56, 0)}}

\* Cache::put's effect on inner: HashMap::insert.
PutKeepsFirst(inner, artifact_name, reference_value) ==
    IF artifact_name \in DOMAIN inner THEN inner
    ELSE MapInsert(inner, artifact_name, reference_value)
CachePut(inner, artifact_name, reference_value) ==
    MapInsert(inner, artifact_name, reference_value)

\* The orders in which a HashMap may iterate over the keys K.
Orders(K) ==
    {o \in [1..Cardinality(K) -> K] : \A i, j \in 1..Cardinality(K) : o[i] = o[j] => i = j}

\* Cache::get_all's results: the values cloned in some iteration order.
GetAllResults(inner) ==
    {[i \in 1..Cardinality(DOMAIN inner) |-> inner[o[i]]] : o \in Orders(DOMAIN inner)}

\* The last CacheAPI call: its name, and the arguments of the last put with the
\* value it replaced (NoRV if none).
NoCacheOp == [op |-> None, name |-> None, value |-> NoRV, old |-> NoRV]

\* CacheAPI::put, called on the Cache directly
Put(artifact_name, reference_value) ==
    /\ cache' = CachePut(cache, artifact_name, reference_value)
    /\ cache_op' = [op |-> "put", name |-> artifact_name, value |-> reference_value,
                    old |-> IF artifact_name \in DOMAIN cache
                            THEN cache[artifact_name] ELSE NoRV]
    /\ UNCHANGED <<snapshot, extractVars, broadcastVars, rvVars>>

\* CacheAPI::get_all: the values are cloned out of inner, which is only read.
GetAllDrains ==
    /\ snapshot' \in GetAllResults(cache)
    /\ cache_op' = [cache_op EXCEPT !.op = "get_all"]
    /\ cache' = EmptyMap
    /\ UNCHANGED <<extractVars, broadcastVars, rvVars>>
GetAll ==
    /\ snapshot' \in GetAllResults(cache)
    /\ cache_op' = [cache_op EXCEPT !.op = "get_all"]
    /\ UNCHANGED <<cache, extractVars, broadcastVars, rvVars>>

-----------------------------------------------------------------------------
(* app/broadcaster/mod.rs and as_api.rs *)

\* Most messages delivered in one run of the model.
MaxPublished == 3

\* The statements of store_and_publish in program order: the statement that
\* follows a given one ("return" is the closing Ok(())).
NextStatementPublishFirst(statement) ==
    CASE statement = "serialize" -> "publish"
      [] statement = "publish" -> "put"
      [] statement = "put" -> "return"
NextStatement(statement) ==
    CASE statement = "serialize" -> "put"
      [] statement = "put" -> "publish"
      [] statement = "publish" -> "return"

\* Leaving a statement that succeeded: on to the next one, or return Ok(()).
Advance(statement) ==
    IF NextStatement(statement) = "return"
    THEN sp_pc' = "idle" /\ sp_result' = Ok(None)
    ELSE sp_pc' = NextStatement(statement) /\ UNCHANGED sp_result

\* store_and_publish's first statement: let message = serde_json::to_string(&rv)?
\* serOk is whether serde_json::to_string succeeds.
SPSerializeIgnoresError(reference_value, serOk) ==
    /\ sp_pc = "idle"
    /\ Len(published) < MaxPublished
    /\ sp_rv' = reference_value
    /\ sp_retry' = (sp_result = Err("publish", None) /\ reference_value = sp_rv)
    /\ sp_message' = IF serOk THEN Serialize(reference_value) ELSE NoWire
    /\ Advance("serialize")
    /\ UNCHANGED <<published, cacheVars, extractVars, rvVars>>
SPSerialize(reference_value, serOk) ==
    /\ sp_pc = "idle"
    /\ Len(published) < MaxPublished
    /\ sp_rv' = reference_value
    /\ sp_retry' = (sp_result = Err("publish", None) /\ reference_value = sp_rv)
    /\ IF serOk
       THEN sp_message' = Serialize(reference_value) /\ Advance("serialize")
       ELSE /\ sp_message' = NoWire
            /\ sp_pc' = "idle"
            /\ sp_result' = Err("serde_json", None)
    /\ UNCHANGED <<published, cacheVars, extractVars, rvVars>>

\* rv.name(), the key store_and_publish puts rv under.
VersionOf(reference_value) == reference_value.version
NameOf(reference_value) == reference_value.name

\* self.cache.put(rv.name(), rv)? on the in-memory Cache, whose put returns Ok.
SPPut ==
    /\ sp_pc = "put"
    /\ cache' = CachePut(cache, NameOf(sp_rv), sp_rv)
    /\ Advance("put")
    /\ UNCHANGED <<cache_op, snapshot, published, sp_rv, sp_message, sp_retry>>
    /\ UNCHANGED <<extractVars, rvVars>>

\* What store_and_publish does to the cache when publish has failed.
RollBackOnPublishError(inner, name) == Restrict(inner, (DOMAIN inner) \ {name})
OnPublishError(inner, name) == inner

\* self.as_api.publish(message)? pubOk is whether the channel delivers it.
SPPublish(pubOk) ==
    /\ sp_pc = "publish"
    /\ IF pubOk
       THEN /\ published' = Append(published, sp_message)
            /\ Advance("publish")
            /\ UNCHANGED cache
       ELSE /\ sp_pc' = "idle"
            /\ sp_result' = Err("publish", None)
            /\ cache' = OnPublishError(cache, sp_rv.name)
            /\ UNCHANGED published
    /\ UNCHANGED <<cache_op, snapshot, sp_rv, sp_message, sp_retry, extractVars, rvVars>>

-----------------------------------------------------------------------------
(* Specifications *)

Init ==
    /\ extractors_instance_map = EmptyMap
    /\ factory_calls = [t \in ProvTypes |-> 0]
    /\ instances_used = [t \in ProvTypes |-> {}]
    /\ cwd = <<>>
    /\ hp = NoCall
    /\ th = [t \in Threads |-> NoThreadCall]
    /\ cache = EmptyMap
    /\ cache_op = NoCacheOp
    /\ snapshot = <<>>
    /\ published = <<>>
    /\ sp_pc = "idle"
    /\ sp_rv = NoRV
    /\ sp_message = NoWire
    /\ sp_result = Ok(None)
    /\ sp_retry = FALSE
    /\ rv = NewReferenceValue(DateTime(2022, 8, 1, 12, 34, 56, 123456789))
    /\ wire = NoWire
    /\ back = NoBack

\* Which of a call's two operating-system requests fail: env::current_dir()
\* and the closing env::set_current_dir(cwd).
IoFailures == [current_dir : BOOLEAN, restore : BOOLEAN]

\* A registry serving handle_provenance calls one after another.
Next ==
    \E io \in IoFailures :
        \E t \in ProvTypes, n \in ArtifactNames, p \in ParamMaps :
            \E verdict \in Verdicts(t) :
                HandleProvenance(t, n, p, ~io.current_dir, ~io.restore, verdict)

Spec == Init /\ [][Next]_vars

\* A Broadcaster serving store_and_publish calls one after another.
NextBroadcast ==
    \/ \E r \in StoredRVs, serOk \in BOOLEAN : SPSerialize(r, serOk)
    \/ SPPut
    \/ \E pubOk \in BOOLEAN : SPPublish(pubOk)

SpecBroadcast == Init /\ [][NextBroadcast]_vars

\* Threads calling handle_provenance, each on its own registry, their
\* statements interleaved.
NextThreads ==
    \E t \in Threads :
        \/ \E type \in ProvTypes, p \in ThreadParams :
               EnterWorkingDir(t, type, "kata-agent", p)
        \/ \E verdict \in {Rejected, Verified} \cup Digests : Extract(t, verdict)
        \/ RestoreCwd(t)

SpecThreads == Init /\ [][NextThreads]_vars

\* A Cache used through CacheAPI.
NextCache ==
    \/ \E n \in StoredNames, r \in StoredRVs : Put(n, r)
    \/ GetAll

SpecCache == Init /\ [][NextCache]_vars

\* ReferenceValues built with the builder methods, serialized and read back.
NextRV ==
    \/ \E now \in NowTimes : New(now)
    \/ \E v \in Versions : SetVersion(v)
    \/ \E n \in RVNames : SetName(n)
    \/ \E t \in ExpiredTimes : SetExpired(t)
    \/ \E h \in HashPairs : AddHashValue(h.alg, h.value)
    \/ SerializeRV
    \/ DeserializeRV

SpecRV == Init /\ [][NextRV]_vars

\* JSON objects arriving from outside and deserialized.
NextWire ==
    \/ \E obj \in WireObjects : Receive(obj)
    \/ DeserializeRV

SpecWire == Init /\ [][NextWire]_vars

-----------------------------------------------------------------------------
(* Properties of handle_provenance, checked under Spec *)

\* A handle_provenance call has been made (hp describes it).
Called == hp.provenance_type # None

\* C1: after any handle_provenance call, whether it returned a ReferenceValue
\* or failed, the process's working directory is what it was immediately
\* before the call.
C1_CwdRestoredAfterEveryCall == Called => cwd = hp.cwd_before

\* C2: over any sequence of calls on one registry the factory of a provenance
\* type is invoked at most once, every call for the type resolves the same
\* instance, which is the single one the instance map holds for the type.
C2_OneInstancePerType ==
    \A t \in ProvTypes :
        /\ factory_calls[t] <= 1
        /\ Cardinality(instances_used[t]) <= 1
        /\ t \in DOMAIN extractors_instance_map
              => instances_used[t] = {extractors_instance_map[t]}
        /\ t \notin DOMAIN extractors_instance_map
              => instances_used[t] = {} /\ factory_calls[t] = 0

\* A call that found the instance of its type already registered.
C2_Witness ==
    /\ Called /\ ~hp.created /\ hp.instance # NoInstance
    /\ factory_calls[hp.provenance_type] = 1
    /\ hp.provenance_type \in DOMAIN hp.map_before

MissingWorkingDir == Err("parameters do not indicate {}!", WORKING_DIR_KEY)

\* C3 as stated: a call whose parameter map has no "working_dir" key always
\* fails with the missing-parameter error for "working_dir", and
\* verify_and_extract is not invoked during it.
C3_MissingWorkingDirAlwaysThatError ==
    (Called /\ WORKING_DIR_KEY \notin DOMAIN hp.parameters)
        => hp.result = MissingWorkingDir /\ ~hp.ran

\* C3 amended: in a call whose parameter map has no "working_dir" key
\* verify_and_extract is never invoked and the call fails; it fails with the
\* missing-parameter error for "working_dir" when the provenance type has a
\* registered factory and the current directory could be read, and with the
\* unsupported-type error when the type has no factory.
C3_MissingWorkingDirAmended ==
    (Called /\ WORKING_DIR_KEY \notin DOMAIN hp.parameters)
        => /\ ~hp.ran
           /\ ~hp.result.ok
           /\ (hp.provenance_type \in mod_list /\ hp.cur_dir_ok)
                 => hp.result = MissingWorkingDir
           /\ hp.provenance_type \notin mod_list
                 => hp.result = GetFunc(hp.provenance_type)

\* A call for a registered type, without working_dir, that failed for that.
C3_Witness ==
    /\ Called /\ WORKING_DIR_KEY \notin DOMAIN hp.parameters
    /\ hp.provenance_type = "in-toto" /\ hp.cur_dir_ok
    /\ InTotoKeys \subseteq DOMAIN hp.parameters
    /\ hp.result = MissingWorkingDir

\* C8: a call naming a provenance type without a registered factory fails with
\* the unsupported-type error naming the type; no instance is added to the
\* instance map, no extractor runs, the working directory is not changed.
C8_UnsupportedType ==
    (Called /\ hp.provenance_type \notin mod_list)
        => /\ hp.result = Err("RVPS Extractors does not support the given extractor: {}!",
                              hp.provenance_type)
           /\ extractors_instance_map = hp.map_before
           /\ hp.provenance_type \notin DOMAIN extractors_instance_map
           /\ hp.instance = NoInstance /\ ~hp.created
           /\ ~hp.ran
           /\ cwd = hp.cwd_before

\* A call for "foo" with a complete parameter map, after other calls have
\* registered an instance and moved the working directory.
C8_Witness ==
    /\ Called /\ hp.provenance_type = "foo"
    /\ hp.parameters = FullParams("w")
    /\ ~hp.result.ok /\ hp.result.arg = "foo"
    /\ extractors_instance_map # EmptyMap
    /\ cwd # <<>>

\* The in-toto parameters are all present and parse.
InTotoParamsGood(parameters) ==
    /\ InTotoKeys \subseteq DOMAIN parameters
    /\ parameters["pub_key_paths"] \in JsonPathLists
    /\ parameters["intermediate_paths"] \in JsonPathLists
    /\ parameters["line_normalization"] \in BoolTexts

\* C9: a handle_provenance call for "in-toto" never returns a ReferenceValue;
\* when the in-toto verification succeeds the call fails with the
\* extraction-not-implemented error; and a registry that only serves
\* handle_provenance calls caches and publishes nothing.
C9_InTotoNeverExtracts ==
    /\ (Called /\ hp.provenance_type = "in-toto")
          => /\ ~hp.result.ok
             /\ (hp.ran /\ hp.verdict = Verified /\ InTotoParamsGood(hp.parameters))
                   => hp.result = Err("Can not extract hash value using in-toto", None)
    /\ cache = EmptyMap
    /\ published = <<>>

\* An in-toto call whose verification succeeded.
C9_Witness ==
    /\ Called /\ hp.provenance_type = "in-toto"
    /\ hp.ran /\ hp.verdict = Verified /\ InTotoParamsGood(hp.parameters)
    /\ hp.result = Err("Can not extract hash value using in-toto", None)

\* What the extractor of the last call returned, when it ran.
ExtractorResult == VerifyAndExtract(hp.instance.type, hp.parameters, hp.verdict)

\* C14: when the extractor's verify_and_extract fails, handle_provenance fails
\* with exactly that error, same kind and message, neither wrapped nor
\* replaced, and returns no ReferenceValue; for the call of the in_toto test
\* the error is the one the test expects.
C14_ExtractorErrorUnchanged ==
    /\ (hp.ran /\ ~ExtractorResult.ok) => ~hp.result.ok /\ hp.result = ExtractorResult
    /\ (hp.ran /\ hp.provenance_type = "in-toto" /\ hp.verdict = Verified
            /\ hp.parameters \in {FullParams(wd) : wd \in WorkingDirParams})
          => hp.result = Err("Can not extract hash value using in-toto", None)

\* Calls whose extractor failed: in-toto without a layout path, and another
\* extractor rejecting the provenance.
C14_Witness ==
    /\ hp.ran
    /\ hp.result \in {Err("parameters do not have layout path!", None),
                      Err("verification failed", None)}

\* C15: when the extractor succeeds with digest d, handle_provenance returns a
\* ReferenceValue whose name is artifact_name, whose hash values are the single
\* pair (algorithm, d), whose version is the default constant, and which
\* carries an expiration.
C15_ReturnsFullReferenceValue ==
    (hp.ran /\ ExtractorResult.ok) =>
        /\ hp.result.ok
        /\ hp.result.value.provenance_name = hp.provenance_name
        /\ "version" \in DOMAIN hp.result.value
        /\ hp.result.value.version = REFERENCE_VALUE_VERSION
        /\ "expired" \in DOMAIN hp.result.value
        /\ \E h \in HashPairs :
              hp.result.value.hash_value = <<HashValuePair(h.alg, ExtractorResult.value)>>

\* C18: in any sequence of handle_provenance calls the directory in which a
\* call's extractor runs is determined by the call's working_dir parameter and
\* the working directory the process had at the start of the sequence (the
\* root, in Init) alone, whatever the outcomes of the earlier calls.
C18_RunDirIndependentOfHistory ==
    hp.ran => hp.run_dir = Resolve(<<>>, hp.parameters[WORKING_DIR_KEY])

\* C19: a call for a registered type that fails after the instance was
\* resolved leaves the instance registered: no call removes or replaces an
\* instance, the instance map's keys are among the factory table's keys, the
\* instance a call resolved is the registered one whatever the call returned,
\* and a call for a type already registered does not invoke the factory.
C19_InstanceStaysRegistered ==
    /\ DOMAIN extractors_instance_map \subseteq mod_list
    /\ Called =>
        /\ \A t \in DOMAIN hp.map_before :
              /\ t \in DOMAIN extractors_instance_map
              /\ extractors_instance_map[t] = hp.map_before[t]
        /\ hp.instance # NoInstance =>
              /\ hp.provenance_type \in DOMAIN extractors_instance_map
              /\ extractors_instance_map[hp.provenance_type] = hp.instance
        /\ hp.provenance_type \in DOMAIN hp.map_before => ~hp.created

\* A failed call for the only registered type, made after an earlier call for
\* that type had failed inside working_dir: the instance is the one built
\* first.
C19_Witness ==
    /\ Called /\ ~hp.result.ok /\ ~hp.created
    /\ hp.cwd_before # <<>>
    /\ DOMAIN hp.map_before = {hp.provenance_type}
    /\ hp.instance = Instance(hp.provenance_type, 1)
    /\ factory_calls[hp.provenance_type] = 1

\* The last call reached env::set_current_dir(working_dir) and the directory
\* the path names, resolved against the directory the process was in, does not
\* exist.
WorkingDirMissing ==
    /\ Called /\ hp.provenance_type \in mod_list /\ hp.cur_dir_ok
    /\ WORKING_DIR_KEY \in DOMAIN hp.parameters
    /\ Resolve(hp.cwd_before, hp.parameters[WORKING_DIR_KEY]) \notin ExistingDirs

\* C21: when switching to the directory named by working_dir fails, for
\* example because the directory does not exist, handle_provenance fails
\* without invoking the extractor, and the process's working directory is
\* what it was before the call.
C21_FailedEnterLeavesCwd ==
    WorkingDirMissing =>
        /\ ~hp.result.ok
        /\ hp.result = Err("io: set_current_dir", hp.parameters[WORKING_DIR_KEY])
        /\ ~hp.ran /\ hp.run_dir = NoDir
        /\ cwd = hp.cwd_before

\* A call naming a directory that does not exist, made while the process was
\* in /w.
C21_Witness ==
    /\ WorkingDirMissing
    /\ hp.parameters[WORKING_DIR_KEY] = "/missing"
    /\ hp.cwd_before = <<"w">> /\ cwd = <<"w">>
    /\ ~hp.ran /\ ~hp.result.ok

-----------------------------------------------------------------------------
(* Properties of the Broadcaster, checked under SpecBroadcast *)

PublishFailed == Err("publish", None)
SerializeFailed == Err("serde_json", None)

\* C4: store_and_publish writes the cache before it publishes: whenever a
\* message is delivered, it is the serialized form of the call's value and the
\* cache already holds that value under its name.
C4_CacheWritePrecedesPublish ==
    [][published' # published
         => /\ published' = Append(published, Serialize(sp_rv))
            /\ sp_rv.name \in DOMAIN cache
            /\ cache[sp_rv.name] = sp_rv]_vars

\* A store_and_publish that returned Ok: value cached and message delivered.
C4_Witness ==
    /\ sp_pc = "idle" /\ sp_rv \in StoredRVs /\ sp_result = Ok(None)
    /\ Len(published) > 0 /\ published[Len(published)] = Serialize(sp_rv)
    /\ cache[sp_rv.name] = sp_rv

\* C5: when the cache write has succeeded and the publish then fails, the call
\* returns the publish error, the cache holds the value under its name (no
\* rollback) and no message has been delivered.
C5_PublishFailureKeepsCache ==
    [][(sp_pc = "publish" /\ sp_pc' = "idle" /\ ~sp_result'.ok)
         => /\ sp_result' = PublishFailed
            /\ published' = published
            /\ sp_rv.name \in DOMAIN cache'
            /\ cache'[sp_rv.name] = sp_rv
            /\ cache' = cache]_vars

\* A call whose publish failed: its value is cached, and its message was never
\* delivered.
C5_Witness ==
    /\ sp_pc = "idle" /\ sp_result = PublishFailed
    /\ cache[sp_rv.name] = sp_rv
    /\ \A i \in 1..Len(published) : published[i] # Serialize(sp_rv)

\* C6: when serialization of the value fails, store_and_publish fails at once,
\* leaving the cache unchanged and publishing nothing.
C6_SerializeFailureNoEffect ==
    [][(sp_message' = NoWire)
         => /\ sp_pc' = "idle"
            /\ sp_result' = SerializeFailed
            /\ cache' = cache
            /\ published' = published]_vars

\* A call that failed to serialize a value the cache does not hold, after
\* earlier calls had stored and published.
C6_Witness ==
    /\ sp_pc = "idle" /\ sp_rv \in StoredRVs /\ sp_message = NoWire
    /\ sp_result = SerializeFailed
    /\ cache # EmptyMap /\ published # <<>>
    /\ \A n \in DOMAIN cache : cache[n] # sp_rv

\* C16: retrying store_and_publish(v) after a call whose publish failed
\* leaves the cache as a single successful store_and_publish(v) leaves it: the
\* retry's cache write changes nothing (the failed call had written v, and
\* writing it again is idempotent), the cache holds one entry for v's name,
\* equal to v, and the retry publishes the serialized form of v.
C16_RetryAfterPublishFailure ==
    [][/\ (sp_retry /\ sp_pc = "put") => cache' = cache
       /\ (sp_retry /\ sp_pc = "publish" /\ sp_pc' = "idle" /\ sp_result'.ok)
             => /\ published' = Append(published, Serialize(sp_rv))
                /\ cache' = cache
                /\ sp_rv.name \in DOMAIN cache'
                /\ cache'[sp_rv.name] = sp_rv
                /\ cache' = CachePut(cache, sp_rv.name, sp_rv)]_vars

\* A retry that returned Ok: its message is the only one published (the first
\* attempt delivered none), and the cache holds the value beside an entry of
\* another name.
C16_Witness ==
    /\ sp_retry /\ sp_pc = "idle" /\ sp_result = Ok(None)
    /\ published = <<Serialize(sp_rv)>>
    /\ cache[sp_rv.name] = sp_rv
    /\ Cardinality(DOMAIN cache) = 2

\* C20: after any sequence of store_and_publish calls, successful or failed,
\* every cache entry stored under key k is a ReferenceValue whose name is k,
\* and every published message is the serialization of the value the same
\* call wrote to the cache: the message a call is about to publish, and the
\* one it has published when it returns Ok, is the serialized form of the
\* value it put under its name.
C20_CacheKeysAndMessages ==
    /\ \A k \in DOMAIN cache : cache[k].name = k
    /\ \A i \in 1..Len(published) : \E r \in StoredRVs : published[i] = Serialize(r)
    /\ sp_pc = "publish" => sp_message = Serialize(sp_rv) /\ cache[sp_rv.name] = sp_rv
    /\ (sp_pc = "idle" /\ sp_result = Ok(None) /\ sp_rv # NoRV)
          => /\ published # <<>>
             /\ published[Len(published)] = Serialize(sp_rv)
             /\ cache[sp_rv.name] = sp_rv

\* After successful and failed calls: two names cached, two messages
\* published, the last call failed at publish.
C20_Witness ==
    /\ sp_pc = "idle" /\ sp_result = PublishFailed
    /\ Cardinality(DOMAIN cache) = 2 /\ Len(published) = 2
    /\ published[2] # Serialize(sp_rv)

-----------------------------------------------------------------------------
(* Properties of the Cache, checked under SpecCache *)

\* C7: the cache retains exactly one ReferenceValue per artifact name, the one
\* of the most recent put for that name: a lookup of the name last put yields
\* the value last put, and get_all returns one value per key, each the key's
\* current value, so never an overwritten one in place of or beside it.
C7_LastWriteWins ==
    /\ cache_op.name # None
          => cache_op.name \in DOMAIN cache /\ cache[cache_op.name] = cache_op.value
    /\ cache_op.op = "get_all"
          => /\ Len(snapshot) = Cardinality(DOMAIN cache)
             /\ \E o \in Orders(DOMAIN cache) :
                    \A i \in 1..Len(snapshot) : snapshot[i] = cache[o[i]]

\* get_all after put(n, v1) then put(n, v2) with v1 # v2: v2 is returned and
\* v1 is not.
C7_Witness ==
    /\ cache_op.op = "get_all"
    /\ cache_op.old \notin {NoRV, cache_op.value}
    /\ Len(snapshot) = 2
    /\ \E i \in 1..2 : snapshot[i] = cache_op.value
    /\ \A i \in 1..2 : snapshot[i] # cache_op.old

\* C17: get_all returns a copy holding exactly one ReferenceValue per key now
\* in the cache, the latest value put for the key and nothing else, and leaves
\* the cache unchanged; a later put does not alter a sequence already
\* returned.
C17_GetAllIsACopy ==
    [][/\ cache_op'.op = "get_all"
            => /\ cache' = cache
               /\ Len(snapshot') = Cardinality(DOMAIN cache)
               /\ \E o \in Orders(DOMAIN cache) :
                      \A i \in 1..Len(snapshot') : snapshot'[i] = cache[o[i]]
       /\ cache_op'.op = "put" => snapshot' = snapshot]_vars

\* A put that replaced a value after get_all had returned it: the returned
\* sequence still holds the replaced value, the cache the new one.
C17_Witness ==
    /\ cache_op.op = "put"
    /\ Len(snapshot) = 2
    /\ \E i \in 1..2 : /\ snapshot[i].name = cache_op.name
                       /\ snapshot[i] = cache_op.old
                       /\ snapshot[i] # cache[cache_op.name]

-----------------------------------------------------------------------------
(* Properties of the ReferenceValue wire form, checked under SpecRV *)

\* C10: for every ReferenceValue v, one built by ReferenceValue::new without
\* set_expired included, deserializing the serialization of v yields a value
\* structurally equal to v.
C10_RoundTrip == back # NoBack => back = Ok(rv)

\* A text of the shape YYYY-MM-DDTHH:MM:SSZ: twenty characters, digits
\* everywhere except the separators at 5, 8, 11, 14, 17 and the closing Z.
IsSecondsForm(text) ==
    /\ Len(text) = 20
    /\ text[5] = "-" /\ text[8] = "-" /\ text[11] = "T"
    /\ text[14] = ":" /\ text[17] = ":" /\ text[20] = "Z"
    /\ \A i \in (1..19) \ {5, 8, 11, 14, 17} : IsDigit(text[i])

\* C11: serializing any ReferenceValue yields an object with exactly the
\* fields version, name, expired and hash-value; expired is a text of the form
\* YYYY-MM-DDTHH:MM:SSZ, and hash-value lists one {alg, value} entry per added
\* hash value, in insertion order.
C11_SerializedShape ==
    wire # NoWire =>
        /\ DOMAIN wire = {"version", "name", "expired", "hash-value"}
        /\ wire["version"] = JStr(rv.version) /\ wire["name"] = JStr(rv.name)
        /\ wire["expired"].t = "string" /\ IsSecondsForm(wire["expired"].v)
        /\ wire["hash-value"] = JArr(rv.hash_value)

-----------------------------------------------------------------------------
(* Properties of deserialization, checked under SpecWire *)

\* The received object is complete and well formed but for its version, which
\* may be absent.
WellFormedButVersion ==
    /\ {"name", "expired", "hash-value"} \subseteq DOMAIN wire
    /\ wire["name"].t = "string" /\ wire["hash-value"].t = "array"
    /\ wire["expired"] = JStr(TestExpiredText)

\* C12: deserializing a ReferenceValue fails when "expired" is missing, null
\* or not of the form YYYY-MM-DDTHH:MM:SSZ; when "version" is absent from an
\* otherwise good input, deserialization succeeds and version is the default
\* constant.
C12_DeserializeRejects ==
    back # NoBack =>
        /\ ( \/ "expired" \notin DOMAIN wire
             \/ wire["expired"].t # "string"
             \/ ~IsSecondsForm(wire["expired"].v) ) => ~back.ok
        /\ (WellFormedButVersion /\ "version" \notin DOMAIN wire)
              => back.ok /\ back.value.version = REFERENCE_VALUE_VERSION

-----------------------------------------------------------------------------
(* Properties of concurrent handle_provenance calls, checked under SpecThreads *)

\* Thread t is between entering working_dir and restoring the directory.
InWorkingDir(t) == th[t].pc \in {"extract", "restore"}

\* C13: no two handle_provenance invocations of one process overlap between
\* switching to working_dir and restoring the original directory, and under
\* every interleaving each extractor invocation runs with the process's
\* working directory set to its own request's working_dir.
C13_ExclusiveWorkingDir ==
    /\ \A t, u \in Threads : t # u => ~(InWorkingDir(t) /\ InWorkingDir(u))
    /\ \A t \in Threads : th[t].run_dir # NoDir => th[t].run_dir = th[t].own_dir

====
